---- MODULE Spec2Model ----
(***************************************************************************)
(* KMS server sync (src/main.js): fetch an issue body, extract candidate   *)
(* host:port endpoints, probe them one after the other with nc, select the *)
(* first valid one and upsert a Cloudflare DNS record for it.              *)
(*                                                                         *)
(* Text is modelled by TLA+ strings over ASCII; positions are 1-based and  *)
(* a match end is the position after the last matched character.  The     *)
(* alternative of the fourth pattern that starts with the three CJK        *)
(* characters of the word "server" cannot occur in an ASCII text and is    *)
(* therefore not represented.                                              *)
(***************************************************************************)
EXTENDS Integers, Sequences, FiniteSets, TLC

(***************************************************************************)
(* Bounds                                                                  *)
(***************************************************************************)
\* issue bodies are built from at most MaxTokens tokens of Tokens
MaxTokens == 2

(***************************************************************************)
(* Characters and strings                                                  *)
(***************************************************************************)
UpperSeq == "ABCDEFGHIJKLMNOPQRSTUVWXYZ"
LowerSeq == "abcdefghijklmnopqrstuvwxyz"
DigitSeq == "0123456789"

Upper == {SubSeq(UpperSeq, i, i) : i \in 1..26}
Lower == {SubSeq(LowerSeq, i, i) : i \in 1..26}
Digit == {SubSeq(DigitSeq, i, i) : i \in 1..10}
Alnum == Upper \cup Lower \cup Digit
HostChar == Alnum \cup {".", "-"}
WordChar == Alnum \cup {"_"}
Space == {" ", "\t", "\n", "\r"}

\* the character of s at position i, "" outside the string
At(s, i) == IF i >= 1 /\ i <= Len(s) THEN SubSeq(s, i, i) ELSE ""

ToLowerCh(c) ==
  IF c \in Upper
  THEN LET i == CHOOSE k \in 1..26 : SubSeq(UpperSeq, k, k) = c
       IN SubSeq(LowerSeq, i, i)
  ELSE c

RECURSIVE ToLower(_)
ToLower(s) == IF s = "" THEN "" ELSE ToLowerCh(Head(s)) \o ToLower(Tail(s))

\* String.prototype.includes
Includes(s, sub) ==
  \E i \in 1..(Len(s) - Len(sub) + 1) : SubSeq(s, i, i + Len(sub) - 1) = sub

\* a literal pattern with the i flag, tested anywhere in s
IncludesI(s, sub) == Includes(ToLower(s), ToLower(sub))

\* a literal pattern with the i flag anchored by $ at the end of s
EndsWithI(s, suf) ==
  /\ Len(s) >= Len(suf)
  /\ ToLower(SubSeq(s, Len(s) - Len(suf) + 1, Len(s))) = ToLower(suf)

\* position after the longest run of characters of class C that starts at p
RECURSIVE SkipWhile(_, _, _)
SkipWhile(s, p, C) ==
  IF p <= Len(s) /\ At(s, p) \in C THEN SkipWhile(s, p + 1, C) ELSE p

\* position after the longest run of characters outside C that starts at p
RECURSIVE SkipWhileNot(_, _, _)
SkipWhileNot(s, p, C) ==
  IF p <= Len(s) /\ At(s, p) \notin C THEN SkipWhileNot(s, p + 1, C) ELSE p

\* \b at position p: exactly one of the characters around p is a word character
WordBoundary(s, p) == (At(s, p - 1) \in WordChar) # (At(s, p) \in WordChar)

\* String.prototype.split(':')[0]
RECURSIVE SplitHost(_)
SplitHost(s) ==
  IF s = "" \/ Head(s) = ":" THEN "" ELSE Head(s) \o SplitHost(Tail(s))

NoMatch == [ok |-> FALSE, end |-> 0, g1 |-> "", g2 |-> ""]
MatchOf(e, a, b) == [ok |-> TRUE, end |-> e, g1 |-> a, g2 |-> b]

\* position after an optional (?::\d+) that starts at e, e itself when absent
PortEnd(s, e) ==
  IF At(s, e) = ":" /\ SkipWhile(s, e + 1, Digit) > e + 1
  THEN SkipWhile(s, e + 1, Digit)
  ELSE e

(***************************************************************************)
(* The four patterns of extractKmsServers, each as the match that          *)
(* regex.exec finds when it tries start position p (greedy quantifiers,    *)
(* backtracking in the order of the engine).                               *)
(***************************************************************************)

\* /(?:kms|KMS)\s*:\s*([a-zA-Z0-9.-]+(?::\d+)?)/g
MatchLabel(s, p) ==
  LET a == SkipWhile(s, p + 3, Space)
      b == SkipWhile(s, a + 1, Space)
      h == SkipWhile(s, b, HostChar)
      e == PortEnd(s, h)
  IN IF /\ p + 2 <= Len(s)
        /\ SubSeq(s, p, p + 2) \in {"kms", "KMS"}
        /\ At(s, a) = ":"
        /\ h > b
     THEN MatchOf(e, SubSeq(s, b, e - 1), "")
     ELSE NoMatch

\* the ways a tail  X(?::(\d+))?\b  can end when X ends at one of the positions
\* of ends: <<end of X, end of match>>
TailEnds(s, ends) ==
  {<<e, e>> : e \in {x \in ends : WordBoundary(s, x)}}
  \cup {t \in ends \X (1..(Len(s) + 1)) :
          /\ At(s, t[1]) = ":"
          /\ t[2] >= t[1] + 2
          /\ t[2] <= SkipWhile(s, t[1] + 1, Digit)
          /\ WordBoundary(s, t[2])}

\* the engine prefers the longer X, then the port group, then the longer port
TailBetter(t, u) ==
  \/ t[1] > u[1]
  \/ t[1] = u[1] /\ t[2] > u[2]

\* /\b([a-zA-Z0-9][a-zA-Z0-9.-]*\.[a-zA-Z0-9]+)(?::(\d+))?\b/g
MatchDomain(s, p) ==
  LET r == SkipWhile(s, p + 1, HostChar)
      dots == {d \in (p + 1)..(r - 1) : At(s, d) = "."}
      \* <<dot, end of group 1, end of match>>
      cands == {<<d, t[1], t[2]>> :
                  d \in dots,
                  t \in TailEnds(s, (p + 2)..r)}
      good == {c \in cands :
                 /\ c[2] >= c[1] + 2
                 /\ c[2] <= SkipWhile(s, c[1] + 1, Alnum)}
      better(c, o) ==
        \/ c[1] > o[1]
        \/ c[1] = o[1] /\ TailBetter(<<c[2], c[3]>>, <<o[2], o[3]>>)
  IN IF /\ At(s, p) \in Alnum
        /\ WordBoundary(s, p)
        /\ good # {}
     THEN LET c == CHOOSE x \in good : \A o \in good : x = o \/ better(x, o)
          IN MatchOf(c[3], SubSeq(s, p, c[2] - 1),
                     IF c[3] > c[2] THEN SubSeq(s, c[2] + 1, c[3] - 1) ELSE "")
     ELSE NoMatch

\* position after \d{1,3}\. that starts at p, 0 when it does not match
QuadPart(s, p) ==
  LET a == SkipWhile(s, p, Digit)
  IN IF p > 0 /\ a - p >= 1 /\ a - p <= 3 /\ At(s, a) = "." THEN a + 1 ELSE 0

\* /\b(\d{1,3}\.\d{1,3}\.\d{1,3}\.\d{1,3})(?::(\d+))?\b/g
MatchIp(s, p) ==
  LET p4 == QuadPart(s, QuadPart(s, QuadPart(s, p)))
      a4 == SkipWhile(s, p4, Digit)
      top == IF a4 > p4 + 3 THEN p4 + 3 ELSE a4
      good == TailEnds(s, (p4 + 1)..top)
  IN IF /\ WordBoundary(s, p)
        /\ p4 > 0
        /\ good # {}
     THEN LET t == CHOOSE x \in good : \A o \in good : x = o \/ TailBetter(x, o)
          IN MatchOf(t[2], SubSeq(s, p, t[1] - 1),
                     IF t[2] > t[1] THEN SubSeq(s, t[1] + 1, t[2] - 1) ELSE "")
     ELSE NoMatch

\* /(?:...|server)[^\w\d\r\n]*([a-zA-Z0-9][a-zA-Z0-9.-]*\.[a-zA-Z0-9]+(?::\d+)?)/gi
MatchServerWord(s, p) ==
  LET c == SkipWhileNot(s, p + 6, WordChar \cup {"\r", "\n"})
      r == SkipWhile(s, c + 1, HostChar)
      dots == {d \in (c + 1)..(r - 1) : At(s, d) = "." /\ At(s, d + 1) \in Alnum}
  IN IF /\ p + 5 <= Len(s)
        /\ ToLower(SubSeq(s, p, p + 5)) = "server"
        /\ At(s, c) \in Alnum
        /\ dots # {}
     THEN LET d == CHOOSE x \in dots : \A o \in dots : x >= o
              e == PortEnd(s, SkipWhile(s, d + 1, Alnum))
          IN MatchOf(e, SubSeq(s, c, e - 1), "")
     ELSE NoMatch

\* regexPatterns, in the order of the array
PatternLabel == 1
PatternDomain == 2
PatternIp == 3
PatternServerWord == 4
regexPatterns == <<PatternLabel, PatternDomain, PatternIp, PatternServerWord>>

MatchAt(k, s, p) ==
  CASE k = PatternLabel -> MatchLabel(s, p)
    [] k = PatternDomain -> MatchDomain(s, p)
    [] k = PatternIp -> MatchIp(s, p)
    [] OTHER -> MatchServerWord(s, p)

\* regex.exec(text) with regex.lastIndex = from - 1: the leftmost match
RECURSIVE Exec(_, _, _)
Exec(k, s, from) ==
  IF from > Len(s) THEN NoMatch
  ELSE LET m == MatchAt(k, s, from)
       IN IF m.ok THEN m ELSE Exec(k, s, from + 1)

(***************************************************************************)
(* extractKmsServers and its filter                                        *)
(***************************************************************************)
DefaultPort == "1688"

\* /\d{1,3}\.\d{1,3}\.\d{1,3}\.\d{1,3}/ tested anywhere in s
HasIpLike(s) ==
  \E p \in 1..Len(s) :
    /\ At(s, p) \in Digit
    /\ At(s, p + 1) = "."
    /\ LET p3 == QuadPart(s, QuadPart(s, p + 2))
       IN p3 > 0 /\ At(s, p3) \in Digit

\* /[a-zA-Z0-9][a-zA-Z0-9.-]*\.[a-zA-Z0-9]+/ tested anywhere in s
HasDomainLike(s) ==
  \E p \in 1..Len(s) :
    /\ At(s, p) \in Alnum
    /\ \E d \in (p + 1)..SkipWhile(s, p + 1, HostChar) :
         At(s, d) = "." /\ At(s, d + 1) \in Alnum

notKmsSubstrings == {"github.com", "example.com", "localhost", "test."}
notKmsSuffixes == {".js", ".css", ".html", ".png", ".jpg", ".gif"}
kmsKeywords == {"kms", "vlmcs", "activate"}

isLikelyKmsServer(server) ==
  IF \/ \E w \in notKmsSubstrings : IncludesI(server, w)
     \/ Includes(server, "127.0.0.1")
     \/ \E x \in notKmsSuffixes : EndsWithI(server, x)
  THEN FALSE
  ELSE IF \/ \E w \in kmsKeywords : IncludesI(server, w)
          \/ HasIpLike(server)
       THEN TRUE
       ELSE HasDomainLike(server)

\* the server string built from a match of pattern k
ServerOf(k, m) ==
  IF k = PatternIp
  THEN m.g1 \o (IF m.g2 # "" THEN ":" \o m.g2 ELSE ":" \o DefaultPort)
  ELSE IF m.g2 # "" THEN m.g1 \o ":" \o m.g2
  ELSE IF Includes(m.g1, ":") THEN m.g1
  ELSE m.g1 \o ":" \o DefaultPort

\* Set.prototype.add on a set kept in insertion order
SetAdd(servers, x) ==
  IF \E i \in 1..Len(servers) : servers[i] = x THEN servers ELSE Append(servers, x)

\* the while loop of one pattern, started with lastIndex = from - 1
RECURSIVE ScanPattern(_, _, _, _)
ScanPattern(k, text, from, servers) ==
  LET m == Exec(k, text, from)
  IN IF ~m.ok THEN servers
     ELSE ScanPattern(k, text, m.end,
                      IF isLikelyKmsServer(ServerOf(k, m))
                      THEN SetAdd(servers, ServerOf(k, m))
                      ELSE servers)

\* the for loop over regexPatterns, from pattern number k on
RECURSIVE ScanPatterns(_, _, _)
ScanPatterns(k, text, servers) ==
  IF k > Len(regexPatterns) THEN servers
  ELSE ScanPatterns(k + 1, text, ScanPattern(regexPatterns[k], text, 1, servers))

specificServers == <<"kms.hmg.pw:1688", "kms.xingez.me:1688", "140.246.142.164:1688">>

\* variant: the whole entry, host and port, is looked for in the text
SpecificFoundWithPort(text, server) == Includes(text, server)

\* text.includes(server.split(':')[0])
SpecificFound(text, server) == Includes(text, SplitHost(server))

\* the for loop over specificServers, from entry number i on
RECURSIVE AddSpecific(_, _, _)
AddSpecific(i, text, found) ==
  IF i > Len(specificServers) THEN found
  ELSE AddSpecific(i + 1, text,
                   IF SpecificFound(text, specificServers[i])
                   THEN SetAdd(found, specificServers[i])
                   ELSE found)

extractKmsServers(text) == AddSpecific(1, text, ScanPatterns(1, text, <<>>))

useFallbackKmsServers ==
  << "kms.hmg.pw:1688",
     "kms.xingez.me:1688",
     "140.246.142.164:1688",
     "kms.03k.org:1688",
     "kms.chinancce.com:1688",
     "kms.ddns.net:1688",
     "kms.ddz.red:1688",
     "kms.lotro.cc:1688",
     "kms.luody.info:1688",
     "kms.moeclub.org:1688",
     "kms8.MSGuides.com:1688",
     "xykz.f3322.org:1688",
     "kms.cangshui.net:1688" >>

(***************************************************************************)
(* Issue bodies the GitHub API may return                                  *)
(***************************************************************************)
Tokens ==
  {"kms", ":", " ", "kms.hmg.pw", "test.", "10.0.0.1", "a-b.io", ":1689",
   "github.com", "server", "_"}

FixedTexts ==
  {"kms: example-kms.test:1689 some other text",
   "KMS:a.kms.io:1689 10.0.0.1, vlmcs.b.net",
   "no servers listed here",
   "Kms: kmshost:1689",
   "kms:host:1688",
   "see app.js and style.css",
   "kms.a-b.io:70000 10.0.0.1:0",
   "old 140.246.142.164:1689 and kms.xingez.me"}

RECURSIVE TokenTexts(_)
TokenTexts(n) ==
  IF n = 0 THEN {""}
  ELSE LET S == TokenTexts(n - 1) IN S \cup {t \o k : t \in S, k \in Tokens}

Texts == TokenTexts(MaxTokens) \cup FixedTexts

(***************************************************************************)
(* State of one run of main()                                              *)
(***************************************************************************)
VARIABLES
  pc,             \* position of main(): "start", "extract", "validate",
                  \* "probe", "nc", "publish", "create", "update", "done"
  fetchResult,    \* how the fetch of the issue ended: "none" before it
  issueBody,      \* issueBody while getKmsServersFromIssue holds it
  kmsServers,     \* kmsServers of main
  idx,            \* position of the for loop of validateKmsServers
  validServers,   \* validServers of validateKmsServers
  probeLog,       \* per finished probe: whether it logged "is valid"
  probesStarted,  \* number of nc commands started
  selectedServer, \* selectedServer of main
  recordId,       \* recordId of updateCloudflareRecord
  lookups,        \* number of GET dns_records requests issued
  writes,         \* the POST and PUT dns_records requests issued, in order
  dnsFailed,      \* a Cloudflare request was rejected or threw
  successLogged,  \* 'Cloudflare DNS record updated successfully' was logged
  exitCode,       \* exit code of the process, NotExited while it runs
  servers,        \* servers of getKmsServersFromIssue: what extraction returned
  transport,      \* how the endpoint of the current nc command behaves
  socket,         \* socket of testKmsServer: "none", "connecting", "open",
                  \* "destroyed"
  timer,          \* timeout of testKmsServer: "none", "armed", "cleared",
                  \* "fired"
  closes,         \* how often the socket of the current attempt was released
  resolved        \* what the promise of testKmsServer resolved to

vars == <<pc, fetchResult, issueBody, kmsServers, idx, validServers, probeLog,
          probesStarted, selectedServer, recordId, lookups, writes, dnsFailed,
          successLogged, exitCode, servers, transport, socket, timer, closes,
          resolved>>

\* the state of testKmsServer
sockVars == <<socket, timer, closes, resolved>>

NoBody == "<no body>"
Unset == "<unset>"
Undefined == "<undefined>"
Null == "<null>"
NotExited == 0 - 1

dnsRecordName == "kms.everyhub.top"
RecordIds == {"rec-1", "rec-2"}

NoTransport == "none"
Pending == "pending"

FetchOutcomes == {"ok", "notOk", "throw"}
\* nc exits 0 without / with 'Connection refused' on stderr, or execPromise rejects
ProbeOutcomes == {"connected", "refused", "error"}
RequestFailures == {"notOk", "throw"}

Init ==
  /\ pc = "start"
  /\ fetchResult = "none"
  /\ issueBody = NoBody
  /\ kmsServers = <<>>
  /\ idx = 0
  /\ validServers = <<>>
  /\ probeLog = <<>>
  /\ probesStarted = 0
  /\ selectedServer = Unset
  /\ recordId = Null
  /\ lookups = 0
  /\ writes = <<>>
  /\ dnsFailed = FALSE
  /\ successLogged = FALSE
  /\ exitCode = NotExited
  /\ servers = <<>>
  /\ transport = NoTransport
  /\ socket = "none"
  /\ timer = "none"
  /\ closes = 0
  /\ resolved = Pending

(***************************************************************************)
(* getKmsServersFromIssue                                                  *)
(***************************************************************************)
\* variant: a failed fetch yields an empty list
OnFetchFailureEmpty == <<>>

\* what getKmsServersFromIssue returns when the response is not ok or the
\* fetch throws
OnFetchFailure == useFallbackKmsServers

\* variant: the extracted servers are returned even when there are none
ServersAsExtracted(found) == found

\* what getKmsServersFromIssue returns for the servers extracted from the body
ServersOrFallback(found) ==
  IF Len(found) = 0 THEN useFallbackKmsServers ELSE found

FetchFailed ==
  /\ pc = "start"
  /\ \E r \in RequestFailures : fetchResult' = r
  /\ kmsServers' = OnFetchFailure
  /\ pc' = "validate"
  /\ UNCHANGED <<issueBody, idx, validServers, probeLog, probesStarted,
                 selectedServer, recordId, lookups, writes, dnsFailed,
                 successLogged, exitCode>>
  /\ UNCHANGED <<servers, transport>>
  /\ UNCHANGED sockVars

FetchOk ==
  /\ pc = "start"
  /\ fetchResult' = "ok"
  /\ \E body \in Texts : issueBody' = body
  /\ pc' = "extract"
  /\ UNCHANGED <<kmsServers, idx, validServers, probeLog, probesStarted,
                 selectedServer, recordId, lookups, writes, dnsFailed,
                 successLogged, exitCode>>
  /\ UNCHANGED <<servers, transport>>
  /\ UNCHANGED sockVars

ExtractFromBody ==
  /\ pc = "extract"
  /\ servers' = extractKmsServers(issueBody)
  /\ kmsServers' = ServersOrFallback(servers')
  /\ pc' = "validate"
  /\ UNCHANGED <<fetchResult, issueBody, idx, validServers, probeLog,
                 probesStarted, selectedServer, recordId, lookups, writes,
                 dnsFailed, successLogged, exitCode>>
  /\ UNCHANGED <<transport>>
  /\ UNCHANGED sockVars

(***************************************************************************)
(* validateKmsServers                                                      *)
(***************************************************************************)
\* variant: the loop stops at the first valid server
ProbingStopsAtFirstValid == idx > Len(kmsServers) \/ Len(validServers) > 0

\* the for loop has gone through every server
ProbingComplete == idx > Len(kmsServers)

\* how the endpoint behaves towards nc: it accepts the connection, refuses
\* it, does not answer, or ("mixed") its host has several addresses of which
\* an earlier one refuses and a later one accepts
TransportBehaviours == {"accepts", "refuses", "hangs", "mixed"}

\* how the nc command ends for an endpoint of behaviour b: exit 0, exit 0
\* after printing 'Connection refused', or a rejected execPromise
NcOutcome(b) ==
  CASE b = "accepts" -> "connected"
    [] b = "mixed" -> "refused"
    [] OTHER -> "error"

\* variant: nc and exec are started without a timeout
ncWithoutTimeout == FALSE

\* nc -w 3 and the exec option timeout: 5000 end a command that gets no answer
ncHasTimeout == TRUE

\* the nc command of the current endpoint comes to an end
NcEnds == transport # "hangs" \/ ncHasTimeout

\* variant: a rejected execPromise counts as valid, only the stderr text is tested
ProbeValidUnlessRefused(outcome) == outcome # "refused"

\* whether the server of a finished nc command is pushed to validServers
ProbeValid(outcome) == outcome = "connected"

\* variant: an error leaves the loop
AfterProbeAbortOnError(outcome) ==
  IF outcome = "error" THEN Len(kmsServers) + 1 ELSE idx + 1

\* the loop position after a probe: the catch is inside the loop
AfterProbe(outcome) == idx + 1

ValidateBegin ==
  /\ pc = "validate"
  /\ issueBody' = NoBody
  /\ servers' = <<>>
  /\ validServers' = <<>>
  /\ idx' = 1
  /\ pc' = "probe"
  /\ UNCHANGED <<fetchResult, kmsServers, probeLog, probesStarted,
                 selectedServer, recordId, lookups, writes, dnsFailed,
                 successLogged, exitCode>>
  /\ UNCHANGED <<transport>>
  /\ UNCHANGED sockVars

ProbeStart ==
  /\ pc = "probe"
  /\ ~ProbingComplete
  /\ probesStarted' = probesStarted + 1
  /\ \E b \in TransportBehaviours : transport' = b
  /\ pc' = "nc"
  /\ UNCHANGED <<fetchResult, issueBody, kmsServers, idx, validServers,
                 probeLog, selectedServer, recordId, lookups, writes,
                 dnsFailed, successLogged, exitCode>>
  /\ UNCHANGED <<servers>>
  /\ UNCHANGED sockVars

ProbeEnd ==
  /\ pc = "nc"
  /\ NcEnds
  /\ LET outcome == NcOutcome(transport)
     IN /\ outcome \in ProbeOutcomes
        /\ validServers' = IF ProbeValid(outcome)
                           THEN Append(validServers, kmsServers[idx])
                           ELSE validServers
        /\ probeLog' = Append(probeLog, ProbeValid(outcome))
        /\ idx' = AfterProbe(outcome)
  /\ pc' = "probe"
  /\ UNCHANGED <<fetchResult, issueBody, kmsServers, probesStarted,
                 selectedServer, recordId, lookups, writes, dnsFailed,
                 successLogged, exitCode>>
  /\ UNCHANGED <<servers, transport>>
  /\ UNCHANGED sockVars

(***************************************************************************)
(* main after validateKmsServers has returned                              *)
(***************************************************************************)
\* variant: the length of the candidate list is tested instead
HasAnyServers == Len(kmsServers) > 0

\* validKmsServers.length > 0
HasValidServers == Len(validServers) > 0

\* variant: the last valid server is returned
selectLastKmsServer(valid) ==
  IF Len(valid) = 0 THEN Undefined ELSE valid[Len(valid)]

selectKmsServer(valid) ==
  IF Len(valid) = 0 THEN Undefined ELSE valid[1]

SelectServer ==
  /\ pc = "probe"
  /\ ProbingComplete
  /\ HasValidServers
  /\ selectedServer' = selectKmsServer(validServers)
  /\ transport' = NoTransport
  /\ pc' = "publish"
  /\ UNCHANGED <<fetchResult, issueBody, kmsServers, idx, validServers,
                 probeLog, probesStarted, recordId, lookups, writes,
                 dnsFailed, successLogged, exitCode>>
  /\ UNCHANGED <<servers>>
  /\ UNCHANGED sockVars

\* the else branch: main returns and the process ends with exit code 0
NoValidServers ==
  /\ pc = "probe"
  /\ ProbingComplete
  /\ ~HasValidServers
  /\ transport' = NoTransport
  /\ pc' = "done"
  /\ exitCode' = 0
  /\ UNCHANGED <<fetchResult, issueBody, kmsServers, idx, validServers,
                 probeLog, probesStarted, selectedServer, recordId, lookups,
                 writes, dnsFailed, successLogged>>
  /\ UNCHANGED <<servers>>
  /\ UNCHANGED sockVars

(***************************************************************************)
(* updateCloudflareRecord                                                  *)
(***************************************************************************)
\* variant: the error is logged and not rethrown, main returns normally
PublishFailureSwallowed ==
  /\ dnsFailed' = TRUE
  /\ pc' = "done"
  /\ exitCode' = 0
  /\ UNCHANGED successLogged

\* a request failed: the error is rethrown up to the catch of main, which
\* calls process.exit(1)
PublishFailure ==
  /\ dnsFailed' = TRUE
  /\ pc' = "done"
  /\ exitCode' = 1
  /\ UNCHANGED successLogged

\* the write succeeded: the success line is logged, main returns
PublishSuccess ==
  /\ successLogged' = TRUE
  /\ pc' = "done"
  /\ exitCode' = 0
  /\ UNCHANGED dnsFailed

\* variant: the whole host:port string is sent as content
createRecordBodyUnsplit(server) ==
  [type |-> "CNAME", name |-> dnsRecordName, content |-> server,
   ttl |-> 120, proxied |-> FALSE]

\* JSON body of the POST request
createRecordBody(server) ==
  [type |-> "CNAME", name |-> dnsRecordName, content |-> SplitHost(server),
   ttl |-> 120, proxied |-> FALSE]

\* JSON body of the PUT request
updateRecordBody(server) ==
  [type |-> "CNAME", name |-> dnsRecordName, content |-> SplitHost(server),
   ttl |-> 120, proxied |-> FALSE]

GetRecordIdFound ==
  /\ pc = "publish"
  /\ lookups' = lookups + 1
  /\ \E id \in RecordIds : recordId' = id
  /\ pc' = "update"
  /\ UNCHANGED <<fetchResult, issueBody, kmsServers, idx, validServers,
                 probeLog, probesStarted, selectedServer, writes, dnsFailed,
                 successLogged, exitCode>>
  /\ UNCHANGED <<servers, transport>>
  /\ UNCHANGED sockVars

GetRecordIdNone ==
  /\ pc = "publish"
  /\ lookups' = lookups + 1
  /\ recordId' = Null
  /\ pc' = "create"
  /\ UNCHANGED <<fetchResult, issueBody, kmsServers, idx, validServers,
                 probeLog, probesStarted, selectedServer, writes, dnsFailed,
                 successLogged, exitCode>>
  /\ UNCHANGED <<servers, transport>>
  /\ UNCHANGED sockVars

GetRecordIdFails ==
  /\ pc = "publish"
  /\ lookups' = lookups + 1
  /\ PublishFailure
  /\ UNCHANGED <<fetchResult, issueBody, kmsServers, idx, validServers,
                 probeLog, probesStarted, selectedServer, recordId, writes>>
  /\ UNCHANGED <<servers, transport>>
  /\ UNCHANGED sockVars

\* selectedServer.split throws before any request when there is no server
WriteIssued(method, id, body) ==
  IF selectedServer = Undefined
  THEN UNCHANGED writes /\ PublishFailure
  ELSE /\ writes' = Append(writes, [method |-> method, id |-> id, body |-> body])
       /\ \/ PublishSuccess
          \/ PublishFailure

CreateRecord ==
  /\ pc = "create"
  /\ WriteIssued("POST", Null, createRecordBody(selectedServer))
  /\ UNCHANGED <<fetchResult, issueBody, kmsServers, idx, validServers,
                 probeLog, probesStarted, selectedServer, recordId, lookups>>
  /\ UNCHANGED <<servers, transport>>
  /\ UNCHANGED sockVars

\* variant: a found record is written with a POST as well
UpdateRecordByPost ==
  /\ pc = "update"
  /\ WriteIssued("POST", Null, updateRecordBody(selectedServer))
  /\ UNCHANGED <<fetchResult, issueBody, kmsServers, idx, validServers,
                 probeLog, probesStarted, selectedServer, recordId, lookups>>
  /\ UNCHANGED <<servers, transport>>
  /\ UNCHANGED sockVars

UpdateRecordById ==
  /\ pc = "update"
  /\ WriteIssued("PUT", recordId, updateRecordBody(selectedServer))
  /\ UNCHANGED <<fetchResult, issueBody, kmsServers, idx, validServers,
                 probeLog, probesStarted, selectedServer, recordId, lookups>>
  /\ UNCHANGED <<servers, transport>>
  /\ UNCHANGED sockVars

Next ==
  \/ FetchFailed
  \/ FetchOk
  \/ ExtractFromBody
  \/ ValidateBegin
  \/ ProbeStart
  \/ ProbeEnd
  \/ SelectServer
  \/ NoValidServers
  \/ GetRecordIdFound
  \/ GetRecordIdNone
  \/ GetRecordIdFails
  \/ CreateRecord
  \/ UpdateRecordById

Spec == Init /\ [][Next]_vars

\* main runs on: every await of the probing stage is resumed once its promise
\* has settled, and an enabled step of the loop is taken
FairSpec ==
  /\ Spec
  /\ WF_vars(ValidateBegin)
  /\ WF_vars(ProbeStart)
  /\ WF_vars(ProbeEnd)
  /\ WF_vars(SelectServer)
  /\ WF_vars(NoValidServers)

(***************************************************************************)
(* The revision of main.js that probes with a TCP socket: testKmsServer    *)
(* and the loop of its main that awaits one attempt after the other        *)
(***************************************************************************)
\* the loop of main is run over lists of at most MaxSocketServers servers
MaxSocketServers == 3

\* servers as the extraction of that revision yields them: host:port
SocketServers == {"kms.hmg.pw:1688", "10.0.0.1:1688"}

RECURSIVE ServerLists(_)
ServerLists(n) ==
  IF n = 0 THEN {<<>>}
  ELSE LET S == ServerLists(n - 1)
       IN S \cup {Append(l, s) : l \in S, s \in SocketServers}

\* the variables the socket revision does not use
mainVars == <<fetchResult, issueBody, probesStarted, selectedServer, recordId,
              lookups, writes, dnsFailed, successLogged, exitCode, servers,
              transport>>

InitSocket ==
  /\ pc = "sock_loop"
  /\ fetchResult = "ok"
  /\ issueBody = NoBody
  /\ kmsServers \in ServerLists(MaxSocketServers)
  /\ idx = 1
  /\ validServers = <<>>
  /\ probeLog = <<>>
  /\ probesStarted = 0
  /\ selectedServer = Unset
  /\ recordId = Null
  /\ lookups = 0
  /\ writes = <<>>
  /\ dnsFailed = FALSE
  /\ successLogged = FALSE
  /\ exitCode = NotExited
  /\ servers = <<>>
  /\ transport = NoTransport
  /\ socket = "none"
  /\ timer = "none"
  /\ closes = 0
  /\ resolved = Pending

\* resolve(v): only the first call settles the promise
Resolve(v) == IF resolved = Pending THEN v ELSE resolved

\* socket.destroy(): releases the handle unless it is released already
Destroy ==
  /\ socket' = "destroyed"
  /\ closes' = IF socket = "destroyed" THEN closes ELSE closes + 1

\* clearTimeout(timeout): a timer that has fired stays fired
ClearTimeout == timer' = IF timer = "armed" THEN "cleared" ELSE timer

\* testKmsServer is called: the socket is created, the timer armed, the
\* connection started and the error handler registered
SocketOpen ==
  /\ pc = "sock_loop"
  /\ idx <= Len(kmsServers)
  /\ socket' = "connecting"
  /\ timer' = "armed"
  /\ closes' = 0
  /\ resolved' = Pending
  /\ pc' = "sock_wait"
  /\ UNCHANGED <<kmsServers, idx, validServers, probeLog>>
  /\ UNCHANGED mainVars

\* the peer accepts: the connection is established, the callbacks have not
\* run yet
ConnectionEstablished ==
  /\ pc = "sock_wait"
  /\ socket = "connecting"
  /\ socket' = "open"
  /\ UNCHANGED <<pc, kmsServers, idx, validServers, probeLog, timer, closes,
                 resolved>>
  /\ UNCHANGED mainVars

\* variant: the connect callback resolves without destroying the socket
ConnectCallbackKeepsSocket ==
  /\ pc = "sock_wait"
  /\ socket = "open"
  /\ ClearTimeout
  /\ resolved' = Resolve("true")
  /\ UNCHANGED <<pc, kmsServers, idx, validServers, probeLog, socket, closes>>
  /\ UNCHANGED mainVars

\* the callback given to socket.connect
ConnectCallback ==
  /\ pc = "sock_wait"
  /\ socket = "open"
  /\ ClearTimeout
  /\ Destroy
  /\ resolved' = Resolve("true")
  /\ UNCHANGED <<pc, kmsServers, idx, validServers, probeLog>>
  /\ UNCHANGED mainVars

\* the connection fails: net.Socket destroys itself and emits 'error', the
\* handler clears the timer and resolves false
ErrorEvent ==
  /\ pc = "sock_wait"
  /\ socket \in {"connecting", "open"}
  /\ Destroy
  /\ ClearTimeout
  /\ resolved' = Resolve("false")
  /\ UNCHANGED <<pc, kmsServers, idx, validServers, probeLog>>
  /\ UNCHANGED mainVars

\* the callback of setTimeout, 5000 ms after the call
TimerFires ==
  /\ pc = "sock_wait"
  /\ timer = "armed"
  /\ timer' = "fired"
  /\ Destroy
  /\ resolved' = Resolve("false")
  /\ UNCHANGED <<pc, kmsServers, idx, validServers, probeLog>>
  /\ UNCHANGED mainVars

\* main resumes after await testKmsServer(server)
AttemptDone ==
  /\ pc = "sock_wait"
  /\ resolved # Pending
  /\ validServers' = IF resolved = "true"
                     THEN Append(validServers, kmsServers[idx])
                     ELSE validServers
  /\ probeLog' = Append(probeLog, resolved = "true")
  /\ idx' = idx + 1
  /\ pc' = "sock_loop"
  /\ UNCHANGED <<kmsServers>>
  /\ UNCHANGED sockVars
  /\ UNCHANGED mainVars

\* the for loop of main has gone through every server
SocketLoopEnd ==
  /\ pc = "sock_loop"
  /\ idx > Len(kmsServers)
  /\ pc' = "sock_done"
  /\ UNCHANGED <<kmsServers, idx, validServers, probeLog>>
  /\ UNCHANGED sockVars
  /\ UNCHANGED mainVars

NextSocket ==
  \/ SocketOpen
  \/ ConnectionEstablished
  \/ ConnectCallback
  \/ ErrorEvent
  \/ TimerFires
  \/ AttemptDone
  \/ SocketLoopEnd

SpecSocket == InitSocket /\ [][NextSocket]_vars

TypeOK ==
  /\ pc \in {"start", "extract", "validate", "probe", "nc", "publish",
             "create", "update", "done"}
  /\ fetchResult \in FetchOutcomes \cup {"none"}
  /\ idx \in 0..(Len(kmsServers) + 1)
  /\ transport \in TransportBehaviours \cup {NoTransport}
  /\ Len(probeLog) <= Len(kmsServers)
  /\ exitCode \in {NotExited, 0, 1}

(***************************************************************************)
(* isValidIpAddress of the revision of main.js that chooses the record     *)
(* type from the host                                                      *)
(***************************************************************************)
DigitVal(c) == CHOOSE k \in 0..9 : SubSeq(DigitSeq, k + 1, k + 1) = c

\* parseInt(s, 10) of a string of digits
RECURSIVE ParseInt(_)
ParseInt(s) ==
  IF s = "" THEN 0
  ELSE 10 * ParseInt(SubSeq(s, 1, Len(s) - 1)) + DigitVal(SubSeq(s, Len(s), Len(s)))

isValidIpAddress(str) ==
  LET p2 == QuadPart(str, 1)
      p3 == QuadPart(str, p2)
      p4 == QuadPart(str, p3)
      a4 == SkipWhile(str, p4, Digit)
  IN /\ p4 > 0
     /\ a4 = Len(str) + 1
     /\ a4 - p4 >= 1
     /\ a4 - p4 <= 3
     /\ \A part \in {SubSeq(str, 1, p2 - 2), SubSeq(str, p2, p3 - 2),
                     SubSeq(str, p3, p4 - 2), SubSeq(str, p4, a4 - 1)} :
          ParseInt(part) >= 0 /\ ParseInt(part) <= 255

(***************************************************************************)
(* Properties                                                              *)
(***************************************************************************)
\* the run is past validateKmsServers
PastProbing == pc \in {"publish", "create", "update", "done"}

\* validateKmsServers has returned and no probe reported a valid server
AllProbesFailed ==
  /\ PastProbing
  /\ \A i \in 1..Len(probeLog) : ~probeLog[i]

DnsCalls == lookups + Len(writes)

\* the set of the entries of a list
SetOf(seq) == {seq[i] : i \in 1..Len(seq)}

\* C1: the selected server is the earliest candidate, in probe order, whose
\* probe reported it valid; a later valid candidate is never selected, and
\* nothing is selected when no probe reported a valid server.
C1_SelectionIsFirstReachable ==
  /\ selectedServer # Unset =>
       \E i \in 1..Len(probeLog) :
         /\ probeLog[i]
         /\ \A j \in 1..(i - 1) : ~probeLog[j]
         /\ selectedServer = kmsServers[i]
  /\ AllProbesFailed => selectedServer = Unset
  /\ PastProbing /\ ~AllProbesFailed => selectedServer # Unset

\* C1 witness: the first candidate failed, two later ones are valid and the
\* earlier of the two is selected.
C1_Witness ==
  /\ selectedServer # Unset
  /\ \E j \in 2..Len(probeLog) :
       /\ \A i \in 1..(j - 1) : ~probeLog[i]
       /\ probeLog[j]
       /\ \E k \in (j + 1)..Len(probeLog) : probeLog[k]
       /\ selectedServer = kmsServers[j]

\* C2: when every probe of the run has failed, no DNS request (lookup,
\* create or update) has been made.
C2_NoPublishWhenAllFail == AllProbesFailed => lookups = 0 /\ writes = <<>>

\* C2 witness: a finished run in which several probes were made and all failed.
C2_Witness ==
  /\ pc = "done"
  /\ AllProbesFailed
  /\ Len(probeLog) = Len(kmsServers)
  /\ Len(probeLog) >= 2
  /\ DnsCalls = 0

\* C3: a run in which every probe failed ends with a non-zero exit code.
C3_AllFailExitsNonZero ==
  pc = "done" /\ AllProbesFailed => exitCode # 0

\* C4: once a Cloudflare request (lookup, create or update) was rejected or
\* threw, the run has ended with exit code 1 and the success line was never
\* logged.
C4_PublishFailureIsFatal ==
  dnsFailed => pc = "done" /\ exitCode = 1 /\ ~successLogged

\* C4 witness: the lookup went through and the write that followed failed.
C4_Witness ==
  /\ dnsFailed
  /\ lookups = 1
  /\ Len(writes) = 1
  /\ exitCode = 1

\* C5: after a failed fetch (response not ok, or an exception) the candidate
\* list is the fallback list, all 13 entries in order, and the run goes on to
\* probe each of them before it ends.
C5_FetchFailureUsesFallback ==
  fetchResult \in RequestFailures =>
    /\ kmsServers = useFallbackKmsServers
    /\ Len(kmsServers) = 13
    /\ pc # "extract"
    /\ pc = "done" => Len(probeLog) = 13 /\ probesStarted = 13

\* C5 witness: the fetch threw and the 13th fallback entry is being probed.
C5_Witness ==
  /\ fetchResult = "throw"
  /\ pc = "nc"
  /\ idx = 13
  /\ kmsServers[idx] = "kms.cangshui.net:1688"

\* no pattern of regexPatterns yields a candidate that passes the filter
NoPatternCandidate(text) == ScanPatterns(1, text, <<>>) = <<>>

\* the text contains the host of one of specificServers
HasSpecificHost(text) ==
  \E i \in 1..Len(specificServers) : Includes(text, SplitHost(specificServers[i]))

\* getKmsServersFromIssue has returned the candidates of a fetched body
ExtractionReturned == pc = "validate" /\ fetchResult = "ok"

\* never an empty candidate list once getKmsServersFromIssue has returned
ProberNeverEmpty == pc \notin {"start", "extract"} => Len(kmsServers) > 0

\* C6 as stated: whenever no pattern yields an accepted candidate, the
\* candidates returned are set-equal to the fallback list, and the prober
\* never gets an empty list.
C6_Original ==
  /\ ExtractionReturned /\ NoPatternCandidate(issueBody) =>
       SetOf(kmsServers) = SetOf(useFallbackKmsServers)
  /\ ProberNeverEmpty

\* C6 amended: whenever no pattern yields an accepted candidate and the text
\* contains none of the three specific hosts, the candidates returned are
\* set-equal to the fallback list; the prober never gets an empty list.
C6_FallbackWhenNothingExtracted ==
  /\ ExtractionReturned /\ NoPatternCandidate(issueBody)
       /\ ~HasSpecificHost(issueBody) =>
         SetOf(kmsServers) = SetOf(useFallbackKmsServers)
  /\ ProberNeverEmpty

\* C6 witness: a body with a rejected match (github.com) and nothing else
\* came back as the fallback list.
C6_Witness ==
  /\ ExtractionReturned
  /\ Includes(issueBody, "github.com")
  /\ NoPatternCandidate(issueBody)
  /\ ~HasSpecificHost(issueBody)
  /\ kmsServers = useFallbackKmsServers

\* the fallback literal list as documented
DocumentedFallbackList ==
  << "kms.hmg.pw:1688", "kms.xingez.me:1688", "140.246.142.164:1688",
     "kms.03k.org:1688", "kms.chinancce.com:1688", "kms.ddns.net:1688",
     "kms.ddz.red:1688", "kms.lotro.cc:1688", "kms.luody.info:1688",
     "kms.moeclub.org:1688", "kms8.msguides.com:1688", "xykz.f3322.org:1688",
     "kms.cangshui.net:1688" >>

\* C7: the fallback list the program returns equals the documented literal
\* list, entry by entry and character for character.
C7_FallbackIsDocumentedList ==
  pc = "validate" /\ fetchResult \in RequestFailures =>
    kmsServers = DocumentedFallbackList

\* C8: every DNS write has type A when the selected host is a dotted-quad
\* IPv4 literal and type CNAME when it is a domain name.
C8_RecordTypeFollowsHost ==
  \A i \in 1..Len(writes) :
    writes[i].body.type =
      IF isValidIpAddress(SplitHost(selectedServer)) THEN "A" ELSE "CNAME"

\* s is a non-empty string of digits
IsPort(s) == s # "" /\ \A i \in 1..Len(s) : SubSeq(s, i, i) \in Digit

\* C9: every DNS write carries the configured record name, ttl 120, proxied
\* false and as content the selected endpoint without its colon and port;
\* for example-kms.test:1689 the content is example-kms.test, type CNAME.
C9_WriteCarriesSelectedHost ==
  \A i \in 1..Len(writes) :
    LET b == writes[i].body
    IN /\ b.name = dnsRecordName
       /\ b.ttl = 120
       /\ b.proxied = FALSE
       /\ b.content # ""
       /\ \E n \in 1..Len(selectedServer) :
            /\ selectedServer = b.content \o ":" \o SubSeq(selectedServer, n, Len(selectedServer))
            /\ IsPort(SubSeq(selectedServer, n, Len(selectedServer)))
       /\ selectedServer = "example-kms.test:1689" =>
            b.content = "example-kms.test" /\ b.type = "CNAME"

\* C9 witness: example-kms.test:1689 was selected and a record was created.
C9_Witness ==
  /\ selectedServer = "example-kms.test:1689"
  /\ Len(writes) = 1
  /\ writes[1].method = "POST"
  /\ writes[1].body.content = "example-kms.test"

\* C10: no probe starts before the fetch and the extraction are over, at most
\* one probe runs at a time, selection happens only after every candidate
\* has been probed, and no DNS request is made before the selection.
C10_StagesInOrder ==
  /\ pc \in {"start", "extract", "validate"} => probesStarted = 0
  /\ probesStarted > 0 => fetchResult # "none" /\ Len(kmsServers) > 0
  /\ probesStarted = Len(probeLog) + (IF pc = "nc" THEN 1 ELSE 0)
  /\ pc = "nc" => selectedServer = Unset /\ DnsCalls = 0
  /\ selectedServer # Unset =>
       Len(probeLog) = Len(kmsServers) /\ probesStarted = Len(kmsServers)
  /\ DnsCalls > 0 => selectedServer # Unset /\ PastProbing

\* C10 witness: a run that extracted three candidates from the body, probed
\* all of them with mixed results and then issued its DNS write.
C10_Witness ==
  /\ fetchResult = "ok"
  /\ Len(kmsServers) = 3
  /\ Len(probeLog) = 3
  /\ probeLog[1]
  /\ ~probeLog[3]
  /\ lookups = 1
  /\ Len(writes) = 1

\* the index of the probe that finished last, 0 when there is none
LastProbed == IF pc = "probe" /\ idx >= 2 THEN idx - 1 ELSE 0

\* the entries of list whose probe logged valid, in the order of list
RECURSIVE ReachableOf(_, _)
ReachableOf(list, log) ==
  IF Len(log) = 0 \/ Len(list) = 0 THEN <<>>
  ELSE IF Head(log)
       THEN <<Head(list)>> \o ReachableOf(Tail(list), Tail(log))
       ELSE ReachableOf(Tail(list), Tail(log))

\* the endpoint of the probe that finished last either accepts connections,
\* refuses them or does not answer
PlainTransport == transport \in {"accepts", "refuses", "hangs"}

C16_FailedProbeNeverAborts ==
  /\ pc = "nc" => probesStarted = idx /\ Len(probeLog) = idx - 1
  /\ pc = "probe" => probesStarted = idx - 1 /\ Len(probeLog) = idx - 1
  /\ PastProbing =>
       /\ probesStarted = Len(kmsServers)
       /\ Len(probeLog) = Len(kmsServers)
  /\ LastProbed > 0 /\ ~probeLog[LastProbed] =>
       /\ exitCode = NotExited
       /\ validServers = ReachableOf(SubSeq(kmsServers, 1, LastProbed - 1),
                                     SubSeq(probeLog, 1, LastProbed - 1))

\* C16 witness: the first probe failed with an error, the second was refused,
\* and a third server was still probed and found valid.
C16_Witness ==
  /\ LastProbed = 3
  /\ probesStarted = 3
  /\ probeLog = <<FALSE, FALSE, TRUE>>
  /\ validServers = <<kmsServers[3]>>

\* C17: every nc command that was started comes to an end, one that gets no
\* answer ends by its timeout with the server not valid, and once
\* validateKmsServers has been entered the run gets past it to the selection.
C17_ProbingTerminates ==
  /\ (pc = "nc") ~> (pc = "probe")
  /\ (pc = "validate") ~> (pc \in {"publish", "done"})
  /\ [](LastProbed > 0 /\ transport = "hangs" => ~probeLog[LastProbed])

\* C17 witness: the last of several probes got no answer and was ended as
\* not valid, the loop is at its end.
C17_Witness ==
  /\ LastProbed = Len(kmsServers)
  /\ LastProbed >= 2
  /\ transport = "hangs"
  /\ ~probeLog[LastProbed]

\* C18: publishing looks the record up by name before anything is written;
\* a found record is followed by one PUT to that record's id and no POST, no
\* record by one POST and no PUT; a run issues at most one write.
C18_PublishIsUpsert ==
  /\ lookups <= 1
  /\ Len(writes) <= 1
  /\ Len(writes) = 1 => lookups = 1
  /\ pc \in {"create", "update"} => lookups = 1 /\ writes = <<>>
  /\ pc = "update" => recordId \in RecordIds
  /\ pc = "create" => recordId = Null
  /\ \A i \in 1..Len(writes) :
       IF recordId \in RecordIds
       THEN writes[i].method = "PUT" /\ writes[i].id = recordId
       ELSE writes[i].method = "POST" /\ writes[i].id = Null
  /\ pc = "done" /\ recordId \in RecordIds => Len(writes) = 1
  /\ pc = "done" /\ lookups = 1 /\ selectedServer \notin {Unset, Undefined} =>
       \/ Len(writes) = 1
       \/ dnsFailed /\ writes = <<>> /\ recordId = Null

\* C18 witness: a finished run whose lookup found a record and whose only
\* write is the PUT to that record.
C18_Witness ==
  /\ pc = "done"
  /\ lookups = 1
  /\ recordId \in RecordIds
  /\ Len(writes) = 1
  /\ writes[1].method = "PUT"
  /\ writes[1].id = recordId

\* the host:port of a token  kms:host:port  that starts at position p of s:
\* the label in any letter case, optional whitespace around the colon, a host
\* of host characters, a colon and a port of digits; "" when there is none
LabelledToken(s, p) ==
  LET a == SkipWhile(s, p + 3, Space)
      h == SkipWhile(s, a + 1, Space)
      e == SkipWhile(s, h, HostChar)
      q == SkipWhile(s, e + 1, Digit)
  IN IF /\ p + 2 <= Len(s)
        /\ ToLower(SubSeq(s, p, p + 2)) = "kms"
        /\ At(s, a) = ":"
        /\ e > h
        /\ At(s, e) = ":"
        /\ q > e + 1
     THEN SubSeq(s, h, q - 1)
     ELSE ""

WellFormedTokens(s) == {LabelledToken(s, p) : p \in 1..Len(s)} \ {""}

\* C13: for every fetched text, the host:port of every well-formed token
\* kms:host:port of the text is an entry of what extractKmsServers returned.
C13_LabelledTokenIsExtracted ==
  ExtractionReturned => WellFormedTokens(issueBody) \subseteq SetOf(servers)

\* a host of the denylist: a code-hosting or placeholder domain, a loopback
\* name or address, or a name that ends in a static-asset extension
DenylistedHost(host) ==
  \/ \E w \in {"github.com", "example.com", "localhost"} : IncludesI(host, w)
  \/ Includes(host, "127.0.0.1")
  \/ \E x \in {".js", ".css", ".html", ".png", ".jpg", ".gif"} : EndsWithI(host, x)

\* C14: no entry of what extractKmsServers returned has a denylisted host.
C14_NoDenylistedHost ==
  ExtractionReturned =>
    \A i \in 1..Len(servers) : ~DenylistedHost(SplitHost(servers[i]))

\* String.prototype.split(':')[1] of a host:port string
PortOf(server) == SubSeq(server, Len(SplitHost(server)) + 2, Len(server))

\* C15: every entry of what extractKmsServers returned has a non-empty host
\* and a port that is an integer from 1 to 65535.
C15_HostAndPortInRange ==
  ExtractionReturned =>
    \A i \in 1..Len(servers) :
      /\ SplitHost(servers[i]) # ""
      /\ IsPort(PortOf(servers[i]))
      /\ ParseInt(PortOf(servers[i])) >= 1
      /\ ParseInt(PortOf(servers[i])) <= 65535

\* the three hosts of the specific step
SpecificHosts == {"kms.hmg.pw", "kms.xingez.me", "140.246.142.164"}

\* the specific endpoints whose host occurs in the text, each with port 1688
SpecificIn(text) == {h \o ":1688" : h \in {x \in SpecificHosts : Includes(text, x)}}

\* C19: what extractKmsServers returns is what the patterns and the filter
\* yield, followed by the specific endpoints whose host is a substring of the
\* text and which are not yet there: each such endpoint is in the output with
\* port 1688 whatever the patterns, the filter and the ports in the text say,
\* and a text with none of the hosts gets nothing added.
C19_SpecificEndpointsAdded ==
  ExtractionReturned =>
    LET found == ScanPatterns(1, issueBody, <<>>)
    IN /\ SpecificIn(issueBody) \subseteq SetOf(servers)
       /\ SetOf(servers) = SetOf(found) \cup SpecificIn(issueBody)
       /\ SubSeq(servers, 1, Len(found)) = found
       /\ Len(servers) = Cardinality(SetOf(servers))
       /\ SpecificIn(issueBody) = {} => servers = found

\* C19 witness: the text holds kms.hmg.pw with another port and inside a name
\* the filter rejects or the patterns do not yield with port 1688, and
\* kms.hmg.pw:1688 is in the output all the same.
C19_Witness ==
  /\ ExtractionReturned
  /\ Includes(issueBody, "kms.hmg.pw")
  /\ "kms.hmg.pw:1688" \notin SetOf(ScanPatterns(1, issueBody, <<>>))
  /\ "kms.hmg.pw:1688" \in SetOf(servers)

\* an attempt of testKmsServer has been made and its promise is settled
AttemptEnded == resolved # Pending

\* C12: an attempt with a socket releases the socket exactly once, whether
\* the connect callback, the error event or the timer ends it and whatever
\* fires afterwards: the socket is never released twice, and once the attempt
\* has ended (and when main goes on to the next server) it is released and the
\* timer is no longer armed.
C12_SocketReleasedOnce ==
  /\ closes <= 1
  /\ closes = 1 <=> socket = "destroyed"
  /\ AttemptEnded =>
       /\ socket = "destroyed"
       /\ closes = 1
       /\ timer \in {"cleared", "fired"}
  /\ pc = "sock_wait" /\ ~AttemptEnded =>
       socket \in {"connecting", "open"} /\ timer = "armed"

\* C12 witness: after an attempt that connected, a later attempt whose
\* connection was established was ended by the timer, with the socket
\* released once.
C12_Witness ==
  /\ pc = "sock_done"
  /\ Len(validServers) >= 1
  /\ timer = "fired"
  /\ resolved = "false"
  /\ socket = "destroyed"
  /\ closes = 1
====
